---- MODULE Spec2Model ----
(***************************************************************************)
(* State machine of the Speech Copilot wizard (frontend/src/App.js).       *)
(*                                                                         *)
(* The state is the five useState cells of App plus the generateSpeech     *)
(* calls that are suspended at an await.  One action per UI event that the *)
(* rendered view offers, and one per settlement of an awaited promise.     *)
(* React re-renders between two discrete events, so a handler reads the    *)
(* state of the moment of its event; the continuation of generateSpeech    *)
(* reads the wizardData its closure captured when the button was clicked.  *)
(*                                                                         *)
(* JavaScript null is the empty sequence Null and a present value v is     *)
(* Some(v).  wizardData is a function whose DOMAIN is the set of keys the  *)
(* object has: reading an absent key is JavaScript's undefined.            *)
(***************************************************************************)
EXTENDS Integers, Sequences, FiniteSets, TLC

VARIABLES
    currentStep,      \* useState(0)
    wizardData,       \* useState({...})
    generatedSpeech,  \* useState(null)
    isLoading,        \* useState(false)
    error,            \* useState(null)
    inflight,         \* generateSpeech calls suspended at an await, oldest first
    lastOp,           \* history: the event processed last
    edits,            \* history: field edits since construction or the last reset
    posts,            \* history: POST requests issued so far
    resets,           \* history: resets so far
    failures,         \* history: generateSpeech calls that ended in the catch
    health,           \* number of testAPI calls suspended at each of its awaits
    alertText         \* the text of the alert() the last event showed, or null

vars == <<currentStep, wizardData, generatedSpeech, isLoading, error, inflight,
          lastOp, edits, posts, resets, failures, health, alertText>>

session == <<currentStep, wizardData, generatedSpeech, isLoading, error>>

history == <<edits, posts, resets, failures>>

\* Bounds of the exploration: field edits per pass through the wizard,
\* POST requests per behaviour, resets per behaviour.
MaxEdits == 4

MaxPosts == 2

MaxResets == 1

\* Bound: testAPI calls that may be suspended at once.
MaxHealthChecks == 1

Null == <<>>
Some(v) == <<v>>

\* An event of the wizard: it starts and ends no testAPI call and shows no
\* alert (alert() is modal: a shown alert is dismissed before the next event).
SessionEvent ==
    /\ UNCHANGED health
    /\ alertText' = Null

----------------------------------------------------------------------------
(* The data model                                                          *)

Keys == {"occasion", "audience", "tone", "length", "template", "topic",
         "additionalContext", "language"}

\* useState initial value of wizardData
InitialWizardData ==
    [occasion |-> "", audience |-> "", tone |-> "formal", length |-> "5",
     template |-> "", topic |-> "", additionalContext |-> "",
     language |-> "english"]

\* the object literal resetWizard passes to setWizardData
ResetWizardData ==
    [occasion |-> "", audience |-> "", tone |-> "formal", length |-> "5",
     template |-> "", topic |-> "", additionalContext |-> ""]

\* The values each control can produce (a subset of the <option> lists; the
\* text inputs produce any text, the empty one included).
Options(k) ==
    CASE k = "occasion" -> {"", "conference"}
      [] k = "audience" -> {"", "media"}
      [] k = "topic" -> {"", "trade"}
      [] k = "length" -> {"5", "10"}
      [] k = "language" -> {"english", "dutch", "french"}
      [] k = "tone" -> {"formal", "urgent"}
      [] k = "template" -> {"persuasive", "informational"}
      [] k = "additionalContext" -> {"", "quote"}

\* The controls renderStep shows at each step.
StepFields(s) ==
    CASE s = 0 -> {"occasion", "audience", "topic", "length", "language"}
      [] s = 1 -> {"tone"}
      [] s = 2 -> {"template"}
      [] s = 3 -> {"additionalContext"}
      [] OTHER -> {}

Has(wd, k) == k \in DOMAIN wd

\* !wd.k : absent (undefined) or the empty string
Falsy(wd, k) == ~Has(wd, k) \/ wd[k] = ""

\* {[k]: v} : the object literal without the spread
Spread_Replaces(wd, k, v) == [x \in {k} |-> v]

\* {...wd, [k]: v}
Spread(wd, k, v) == [x \in (DOMAIN wd) \cup {k} |-> IF x = k THEN v ELSE wd[x]]

----------------------------------------------------------------------------
(* speechAPI.generateSpeech: the request                                   *)

BodyKeys == {"occasion", "audience", "tone", "length", "template", "topic",
             "additional_context", "language"}

\* the wizardData key each key of the body is read from
BodySource(k) == IF k = "additional_context" THEN "additionalContext" ELSE k

\* the keys written as  wizardData.k || ''
DefaultedKeys == {"topic", "additional_context"}

\* JSON.stringify({occasion: wd.occasion, ..., topic: wd.topic || '', ...}):
\* a property whose value is undefined is left out of the text.
RequestBody(wd) ==
    LET written == {k \in BodyKeys : k \in DefaultedKeys \/ Has(wd, BodySource(k))}
    IN  [k \in written |->
            IF k \in DefaultedKeys /\ Falsy(wd, BodySource(k))
            THEN ""
            ELSE wd[BodySource(k)]]

\* the metadata object literal of setGeneratedSpeech, read from the wizardData
\* of the closure; a key whose value is undefined is modelled as absent
MetadataKeys == {"occasion", "audience", "tone", "length", "template", "language"}

Metadata(wd) == [k \in MetadataKeys \cap DOMAIN wd |-> wd[k]]

----------------------------------------------------------------------------
(* The generation service, as the client sees it                           *)

Statuses == {200, 500}

\* response.ok
Ok(status) == status >= 200 /\ status <= 299

\* Bodies of a response: JSON texts holding speech, structure and
\* suggestions, and a text that is not JSON.
ResponseBodies ==
    {[json |-> TRUE, speech |-> "Hello", structure |-> "outline", suggestions |-> "tips"],
     [json |-> TRUE, speech |-> "Bonjour", structure |-> "outline", suggestions |-> "tips"],
     [json |-> FALSE]}

\* messages of the three errors speechAPI.generateSpeech rethrows
HttpErrorMessage(status) == "HTTP error! status: " \o ToString(status)
NetworkErrorMessage == "Failed to fetch"
JsonErrorMessage == "Unexpected token < in JSON at position 0"

\* the text generateSpeech's catch passes to setError
ErrorText(message) == "Failed to generate speech: " \o message

\* a generateSpeech call suspended at  await fetch(...); epoch is history:
\* the number of resets that preceded the call
NewRequest(wd) ==
    [data |-> wd, body |-> RequestBody(wd), pc |-> "fetch", response |-> Null,
     epoch |-> resets]

Remove(q, i) == [j \in 1..(Len(q) - 1) |-> IF j < i THEN q[j] ELSE q[j + 1]]

----------------------------------------------------------------------------
(* App: initial state                                                      *)

Init ==
    /\ currentStep = 0
    /\ wizardData = InitialWizardData
    /\ generatedSpeech = Null
    /\ isLoading = FALSE
    /\ error = Null
    /\ inflight = <<>>
    /\ lastOp = "init"
    /\ edits = 0
    /\ posts = 0
    /\ resets = 0
    /\ failures = 0
    /\ health = [fetch |-> 0, json |-> 0]
    /\ alertText = Null

----------------------------------------------------------------------------
(* Form controls: onChange / onClick of the controls of the current step   *)

\* what a control shows: its value prop, or its first option (for a text
\* input the empty text) when the value prop is undefined
Shown(wd, k) ==
    IF Has(wd, k) THEN wd[k]
    ELSE IF k = "language" THEN "english" ELSE ""

\* the event a control raises: the field it edits and e.target.value
EditOp(k, v) == "setField " \o k \o " = " \o v

\* onChange={(e) => setWizardData({...wizardData, k: e.target.value})} fires
\* when the user changes what the control shows; a template card's onClick
\* fires on every click.
SetField(k, v) ==
    /\ edits < MaxEdits
    /\ k \in StepFields(currentStep)
    /\ v \in Options(k)
    /\ k = "template" \/ v # Shown(wizardData, k)
    /\ wizardData' = Spread(wizardData, k, v)
    /\ lastOp' = EditOp(k, v)
    /\ edits' = edits + 1
    /\ SessionEvent
    /\ UNCHANGED <<currentStep, generatedSpeech, isLoading, error, inflight, posts, resets, failures>>

----------------------------------------------------------------------------
(* Navigation                                                              *)

nextStep ==
    IF currentStep < 4
    THEN currentStep' = currentStep + 1
    ELSE currentStep' = currentStep

prevStep ==
    IF currentStep > 0
    THEN currentStep' = currentStep - 1
    ELSE currentStep' = currentStep

\* Faulty variant: the step-0 guard needs only one of the two fields empty
\* to be missing, i.e. && written for ||.
NextDisabled_BothEmpty ==
    \/ currentStep = 0 /\ (Falsy(wizardData, "occasion") /\ Falsy(wizardData, "audience"))
    \/ currentStep = 2 /\ Falsy(wizardData, "template")

\* Faulty variant: the step-2 guard is left out.
NextDisabled_NoTemplateGuard ==
    currentStep = 0 /\ (Falsy(wizardData, "occasion") \/ Falsy(wizardData, "audience"))

\* the disabled attribute of the Next button
NextDisabled ==
    \/ currentStep = 0 /\ (Falsy(wizardData, "occasion") \/ Falsy(wizardData, "audience"))
    \/ currentStep = 2 /\ Falsy(wizardData, "template")

NextRendered_UpToStep3 == currentStep < 4

\* the Next button is rendered while currentStep < 4 and currentStep < 3
NextRendered == currentStep < 4 /\ currentStep < 3

\* a click on Next: a disabled button calls no handler
ClickNext ==
    /\ NextRendered
    /\ IF NextDisabled
       THEN currentStep' = currentStep /\ lastOp' = "nextDisabled"
       ELSE nextStep /\ lastOp' = "next"
    /\ SessionEvent
    /\ UNCHANGED <<wizardData, generatedSpeech, isLoading, error, inflight, history>>

\* Previous is rendered at steps 1..3, Go Back & Edit at step 4 beside a result
PrevRendered ==
    \/ currentStep < 4 /\ currentStep > 0
    \/ currentStep = 4 /\ generatedSpeech # Null

\* Faulty variant: going back also clears the error.
ClickPrevious_ClearsError ==
    /\ PrevRendered
    /\ prevStep
    /\ error' = Null
    /\ lastOp' = "prev"
    /\ SessionEvent
    /\ UNCHANGED <<wizardData, generatedSpeech, isLoading, inflight, history>>

ClickPrevious ==
    /\ PrevRendered
    /\ prevStep
    /\ lastOp' = "prev"
    /\ SessionEvent
    /\ UNCHANGED <<wizardData, generatedSpeech, isLoading, error, inflight, history>>

----------------------------------------------------------------------------
(* Reset                                                                   *)

\* Faulty variant: setGeneratedSpeech(null) is left out.
resetWizard_KeepsResult ==
    /\ currentStep' = 0
    /\ wizardData' = ResetWizardData
    /\ generatedSpeech' = generatedSpeech
    /\ error' = Null
    /\ UNCHANGED <<isLoading, inflight>>

resetWizard ==
    /\ currentStep' = 0
    /\ wizardData' = ResetWizardData
    /\ generatedSpeech' = Null
    /\ error' = Null
    /\ UNCHANGED <<isLoading, inflight>>

\* Generate New Speech is rendered at step 4 beside a result
ResetRendered_Always == TRUE

ResetRendered == currentStep = 4 /\ generatedSpeech # Null

ClickReset ==
    /\ resets < MaxResets
    /\ ResetRendered
    /\ resetWizard
    /\ lastOp' = "reset"
    /\ resets' = resets + 1
    /\ edits' = 0
    /\ SessionEvent
    /\ UNCHANGED <<posts, failures>>

----------------------------------------------------------------------------
(* generateSpeech                                                          *)

\* Faulty variant: the generate button is never disabled.
GenerateDisabled_Never == FALSE

\* the disabled attribute of the generate button
GenerateDisabled == isLoading

\* Faulty variant: setError(null) is left out.
generateSpeech_KeepsError ==
    /\ isLoading' = TRUE
    /\ error' = error
    /\ inflight' = Append(inflight, NewRequest(wizardData))
    /\ posts' = posts + 1
    /\ UNCHANGED <<currentStep, wizardData, generatedSpeech>>

\* generateSpeech up to its first await: the two setters, then
\* speechAPI.generateSpeech up to  await fetch(url, {method: 'POST', body})
generateSpeech ==
    /\ isLoading' = TRUE
    /\ error' = Null
    /\ inflight' = Append(inflight, NewRequest(wizardData))
    /\ posts' = posts + 1
    /\ UNCHANGED <<currentStep, wizardData, generatedSpeech>>

\* Faulty variant: the generate button is rendered at every step.
ClickGenerate_AtEveryStep ==
    /\ SessionEvent
    /\ IF GenerateDisabled
       THEN lastOp' = "generateDisabled" /\ UNCHANGED <<session, inflight, history>>
       ELSE /\ posts < MaxPosts
            /\ generateSpeech
            /\ lastOp' = "generate"
            /\ UNCHANGED <<edits, resets, failures>>

\* a click on the generate button, rendered at step 3
ClickGenerate ==
    /\ currentStep = 3
    /\ SessionEvent
    /\ IF GenerateDisabled
       THEN lastOp' = "generateDisabled" /\ UNCHANGED <<session, inflight, history>>
       ELSE /\ posts < MaxPosts
            /\ generateSpeech
            /\ lastOp' = "generate"
            /\ UNCHANGED <<edits, resets, failures>>

\* Faulty variant: the catch also discards the stored result.
Fail_DropsResult(i, message) ==
    /\ error' = Some(ErrorText(message))
    /\ isLoading' = FALSE
    /\ generatedSpeech' = Null
    /\ inflight' = Remove(inflight, i)
    /\ lastOp' = "failure"
    /\ SessionEvent
    /\ failures' = failures + 1
    /\ UNCHANGED <<edits, posts, resets>>
    /\ UNCHANGED <<currentStep, wizardData>>

\* Faulty variant: setIsLoading(false) sits in the try block, not in finally.
Fail_KeepsLoading(i, message) ==
    /\ error' = Some(ErrorText(message))
    /\ isLoading' = isLoading
    /\ inflight' = Remove(inflight, i)
    /\ lastOp' = "failure"
    /\ SessionEvent
    /\ failures' = failures + 1
    /\ UNCHANGED <<edits, posts, resets>>
    /\ UNCHANGED <<currentStep, wizardData, generatedSpeech>>

\* catch (error) { setError(...) } finally { setIsLoading(false) }
Fail(i, message) ==
    /\ error' = Some(ErrorText(message))
    /\ isLoading' = FALSE
    /\ inflight' = Remove(inflight, i)
    /\ lastOp' = "failure"
    /\ SessionEvent
    /\ failures' = failures + 1
    /\ UNCHANGED <<edits, posts, resets>>
    /\ UNCHANGED <<currentStep, wizardData, generatedSpeech>>

\* Faulty variant: the metadata is read from the state of the moment the
\* response arrives, not from the wizardData of the closure.
Succeed_ReadsCurrent(i, result) ==
    /\ generatedSpeech' = Some([speech |-> result.speech,
                                structure |-> result.structure,
                                suggestions |-> result.suggestions,
                                metadata |-> Metadata(wizardData)])
    /\ currentStep' = 4
    /\ isLoading' = FALSE
    /\ inflight' = Remove(inflight, i)
    /\ lastOp' = "success"
    /\ SessionEvent
    /\ UNCHANGED history
    /\ UNCHANGED <<wizardData, error>>

\* Faulty variant: setCurrentStep(5), the number of steps taken for the
\* index of the last one.
Succeed_BeyondLastStep(i, result) ==
    /\ generatedSpeech' = Some([speech |-> result.speech,
                                structure |-> result.structure,
                                suggestions |-> result.suggestions,
                                metadata |-> Metadata(inflight[i].data)])
    /\ currentStep' = 5
    /\ isLoading' = FALSE
    /\ inflight' = Remove(inflight, i)
    /\ lastOp' = "success"
    /\ SessionEvent
    /\ UNCHANGED history
    /\ UNCHANGED <<wizardData, error>>

\* setGeneratedSpeech({...}); setCurrentStep(4); finally { setIsLoading(false) }
Succeed(i, result) ==
    /\ generatedSpeech' = Some([speech |-> result.speech,
                                structure |-> result.structure,
                                suggestions |-> result.suggestions,
                                metadata |-> Metadata(inflight[i].data)])
    /\ currentStep' = 4
    /\ isLoading' = FALSE
    /\ inflight' = Remove(inflight, i)
    /\ lastOp' = "success"
    /\ SessionEvent
    /\ UNCHANGED history
    /\ UNCHANGED <<wizardData, error>>

\* fetch resolves with a response: a status that is not ok throws at once,
\* otherwise the call suspends at  await response.json()
FetchResolves(i, status, body) ==
    /\ inflight[i].pc = "fetch"
    /\ IF Ok(status)
       THEN /\ inflight' = [inflight EXCEPT ![i].pc = "json",
                                ![i].response = Some([status |-> status, body |-> body])]
            /\ lastOp' = "response"
            /\ SessionEvent
            /\ UNCHANGED <<session, history>>
       ELSE Fail(i, HttpErrorMessage(status))

\* fetch rejects: the network call threw
FetchRejects(i) ==
    /\ inflight[i].pc = "fetch"
    /\ Fail(i, NetworkErrorMessage)

\* response.json() resolves with the parsed body
JsonResolves(i) ==
    /\ inflight[i].pc = "json"
    /\ inflight[i].response[1].body.json
    /\ Succeed(i, inflight[i].response[1].body)

\* response.json() rejects: the body is not JSON
JsonRejects(i) ==
    /\ inflight[i].pc = "json"
    /\ ~inflight[i].response[1].body.json
    /\ Fail(i, JsonErrorMessage)

----------------------------------------------------------------------------
(* testAPI: the Test API Connection button of the header                   *)

\* the texts testAPI passes to alert()
HealthSuccessAlert == "API connection successful!"
HealthFailureAlert(message) == "API connection failed: " \o message

\* no testAPI call is suspended
NoHealthCheck == [fetch |-> 0, json |-> 0]

\* testAPI up to  await fetch(`${API_BASE_URL}/health`) ; the button is
\* rendered at every step and never disabled
testAPI ==
    /\ health.fetch + health.json < MaxHealthChecks
    /\ health' = [health EXCEPT !.fetch = @ + 1]
    /\ alertText' = Null
    /\ lastOp' = "testAPI"
    /\ UNCHANGED <<session, inflight, history>>

\* Faulty variant: the catch swallows the error and shows nothing.
HealthFail_Silent(pc, message) ==
    /\ alertText' = Null
    /\ health' = [health EXCEPT ![pc] = @ - 1]
    /\ lastOp' = "healthFailure"
    /\ UNCHANGED <<session, inflight, history>>

HealthFail_EndsLoading(pc, message) ==
    /\ alertText' = Some(HealthFailureAlert(message))
    /\ health' = [health EXCEPT ![pc] = @ - 1]
    /\ lastOp' = "healthFailure"
    /\ isLoading' = FALSE
    /\ UNCHANGED <<currentStep, wizardData, generatedSpeech, error, inflight, history>>

\* catch (error) { alert(`API connection failed: ${error.message}`) } in a
\* call suspended at pc
HealthFail(pc, message) ==
    /\ alertText' = Some(HealthFailureAlert(message))
    /\ health' = [health EXCEPT ![pc] = @ - 1]
    /\ lastOp' = "healthFailure"
    /\ UNCHANGED <<session, inflight, history>>

\* fetch resolves: testConnection does not look at the status and suspends
\* at  await response.json()
HealthFetchResolves ==
    /\ health.fetch > 0
    /\ health' = [fetch |-> health.fetch - 1, json |-> health.json + 1]
    /\ alertText' = Null
    /\ lastOp' = "healthResponse"
    /\ UNCHANGED <<session, inflight, history>>

\* fetch rejects: the network call threw
HealthFetchRejects ==
    /\ health.fetch > 0
    /\ HealthFail("fetch", NetworkErrorMessage)

\* response.json() resolves: alert('API connection successful!')
HealthJsonResolves ==
    /\ health.json > 0
    /\ alertText' = Some(HealthSuccessAlert)
    /\ health' = [health EXCEPT !.json = @ - 1]
    /\ lastOp' = "healthSuccess"
    /\ UNCHANGED <<session, inflight, history>>

\* response.json() rejects: the body is not JSON
HealthJsonRejects ==
    /\ health.json > 0
    /\ HealthFail("json", JsonErrorMessage)

----------------------------------------------------------------------------

\* a promise a suspended generateSpeech call awaits settles
Settlement ==
    \E i \in 1..Len(inflight) :
        \/ \E status \in Statuses : \E body \in ResponseBodies : FetchResolves(i, status, body)
        \/ FetchRejects(i)
        \/ JsonResolves(i)
        \/ JsonRejects(i)

Next ==
    \/ \E k \in Keys : \E v \in Options(k) : SetField(k, v)
    \/ ClickNext
    \/ ClickPrevious
    \/ ClickGenerate
    \/ ClickReset
    \/ \E i \in 1..Len(inflight) : \E status \in Statuses : \E body \in ResponseBodies :
            FetchResolves(i, status, body)
    \/ \E i \in 1..Len(inflight) : FetchRejects(i)
    \/ \E i \in 1..Len(inflight) : JsonResolves(i)
    \/ \E i \in 1..Len(inflight) : JsonRejects(i)

Spec == Init /\ [][Next]_vars

\* The service answers every request and every read of a body ends.
FairSpec == Spec /\ WF_vars(Settlement)

\* the events of the health check
HealthNext ==
    \/ testAPI
    \/ HealthFetchResolves
    \/ HealthFetchRejects
    \/ HealthJsonResolves
    \/ HealthJsonRejects

\* The wizard together with the Test API Connection button.
HealthSpec == Init /\ [][Next \/ HealthNext]_vars

----------------------------------------------------------------------------
(* Properties                                                              *)

NonEmpty(wd, k) == Has(wd, k) /\ wd[k] # ""

\* the step is a click on Next, enabled or disabled
IsAdvance == lastOp' \in {"next", "nextDisabled"}

\* C1: at most one generateSpeech request is in flight in every state; a
\* click on generate while isLoading is false starts exactly one POST, a click
\* while isLoading is true starts none, whatever other events are processed
\* between the start of a request and its completion.
C1_AtMostOneRequestInFlight ==
    [][/\ Len(inflight') <= 1
       /\ lastOp' = "generate" =>
            /\ ~isLoading
            /\ Len(inflight') = Len(inflight) + 1
            /\ posts' = posts + 1
       /\ lastOp' = "generateDisabled" =>
            /\ isLoading
            /\ inflight' = inflight
            /\ posts' = posts]_vars

\* a click on generate while the one request is in flight
C1_Witness ==
    /\ lastOp = "generateDisabled"
    /\ isLoading
    /\ Len(inflight) = 1
    /\ posts = 1

\* C2: a click on Next at step 0 leaves currentStep at 0 unless occasion and
\* audience are both non-empty, and then sets it to 1.
C2_AdvanceFromStep0 ==
    [][(IsAdvance /\ currentStep = 0) =>
         currentStep' = IF NonEmpty(wizardData, "occasion") /\ NonEmpty(wizardData, "audience")
                        THEN 1 ELSE 0]_vars

\* Next clicked at step 0 with occasion chosen and audience empty
C2_Witness ==
    /\ lastOp = "nextDisabled"
    /\ currentStep = 0
    /\ wizardData["occasion"] = "conference"
    /\ wizardData["audience"] = ""

\* C3: a click on Next at step 2 leaves currentStep at 2 unless template is
\* non-empty, and then sets it to 3; a click on Next at step 1 always sets
\* currentStep to 2.
C3_AdvanceFromSteps1And2 ==
    [][/\ (IsAdvance /\ currentStep = 2) =>
            currentStep' = IF NonEmpty(wizardData, "template") THEN 3 ELSE 2
       /\ (IsAdvance /\ currentStep = 1) => currentStep' = 2]_vars

\* Next clicked at step 2 with no template chosen
C3_Witness ==
    /\ lastOp = "nextDisabled"
    /\ currentStep = 2
    /\ wizardData["template"] = ""

\* C4: when a generateSpeech call completes successfully, currentStep is 4,
\* the stored result holds the speech of the response body, error is null
\* and isLoading is false; also when an earlier call had failed and set error.
C4_SuccessfulCompletion ==
    [][lastOp' = "success" =>
         /\ Len(inflight) = 1
         /\ inflight[1].pc = "json"
         /\ currentStep' = 4
         /\ generatedSpeech' # Null
         /\ generatedSpeech'[1].speech = inflight[1].response[1].body.speech
         /\ error' = Null
         /\ isLoading' = FALSE]_vars

\* a success right after a failure that had set error (no reset in between)
C4_Witness ==
    /\ lastOp = "success"
    /\ failures > 0
    /\ resets = 0
    /\ currentStep = 4
    /\ generatedSpeech # Null
    /\ generatedSpeech[1].speech = "Hello"
    /\ error = Null
    /\ ~isLoading

\* C5: when a generateSpeech call fails (status not ok, fetch rejecting, body
\* not JSON), its completion sets error to a non-empty text and isLoading to
\* false and leaves currentStep, wizardData and the stored result as they were.
C5_FailedCompletion ==
    [][lastOp' = "failure" =>
         /\ error' # Null
         /\ error'[1] # ""
         /\ error'[1] \in {ErrorText(HttpErrorMessage(st)) : st \in {x \in Statuses : ~Ok(x)}}
                           \cup {ErrorText(NetworkErrorMessage), ErrorText(JsonErrorMessage)}
         /\ isLoading' = FALSE
         /\ UNCHANGED <<currentStep, wizardData, generatedSpeech>>]_vars

\* a body that is not JSON arrives at step 3 while an earlier result is stored
C5_Witness ==
    /\ lastOp = "failure"
    /\ error = Some(ErrorText(JsonErrorMessage))
    /\ currentStep = 3
    /\ generatedSpeech # Null
    /\ ~isLoading

\* C6: under fairness of the settlements, isLoading = TRUE leads to
\* isLoading = FALSE, whatever events are processed while the request is
\* outstanding.
C6_LoadingEventuallyEnds == isLoading ~> ~isLoading

\* a request resolved after the user had gone back to step 0
C6_Witness ==
    /\ lastOp = "failure"
    /\ ~isLoading
    /\ currentStep = 0
    /\ inflight = <<>>

\* C7: right after a reset currentStep is 0, result and error are null,
\* occasion, audience, template, topic and additionalContext are empty, tone
\* is formal and length is 5.
C7_ResetPostcondition ==
    lastOp = "reset" =>
        /\ currentStep = 0
        /\ generatedSpeech = Null
        /\ error = Null
        /\ \A k \in {"occasion", "audience", "template", "topic", "additionalContext"} :
              Has(wizardData, k) /\ wizardData[k] = ""
        /\ Has(wizardData, "tone") /\ wizardData["tone"] = "formal"
        /\ Has(wizardData, "length") /\ wizardData["length"] = "5"

\* a reset in a session that had stored an error and then a result
C7_Witness ==
    /\ lastOp = "reset"
    /\ failures > 0
    /\ posts = 2

\* C8: after a reset language has its default value english; hence language
\* is one of english, dutch, french in every state.
C8_LanguageDefaultAfterReset ==
    /\ Has(wizardData, "language")
    /\ wizardData["language"] \in {"english", "dutch", "french"}
    /\ lastOp = "reset" => wizardData["language"] = "english"

\* what the body of a POST holds under key k when built from wd
BodyValue(wd, k) ==
    IF k \in DefaultedKeys /\ ~NonEmpty(wd, BodySource(k)) THEN "" ELSE wd[BodySource(k)]

\* C9: the body of every POST issued by generateSpeech has exactly the eight
\* keys occasion, audience, tone, length, template, topic, additional_context
\* and language, each with the wizardData value of the moment of the click,
\* topic and additional_context being the empty string when absent.
C9_RequestBodyHasEightKeys ==
    lastOp = "generate" =>
        /\ inflight # <<>>
        /\ DOMAIN inflight[Len(inflight)].body = BodyKeys
        /\ \A k \in BodyKeys :
              /\ k \in DefaultedKeys \/ Has(wizardData, BodySource(k))
              /\ inflight[Len(inflight)].body[k] = BodyValue(wizardData, k)

\* the seven fields of the Review step's configuration list
ConfigurationKeys == MetadataKeys \cup {"topic"}

\* generateSpeech's closure holds the wizardData of the moment of the click
ClosureIsSubmitTimeData ==
    lastOp' = "generate" =>
        /\ inflight' # <<>>
        /\ inflight'[Len(inflight')].data = wizardData

\* C10 as stated: the stored result carries a metadata snapshot of the seven
\* configuration fields with their values of the moment of the click.
C10_SevenFieldSnapshot ==
    [][/\ ClosureIsSubmitTimeData
       /\ lastOp' = "success" =>
            /\ Len(inflight) = 1
            /\ generatedSpeech' # Null
            /\ DOMAIN generatedSpeech'[1].metadata = ConfigurationKeys
            /\ \A k \in ConfigurationKeys :
                  generatedSpeech'[1].metadata[k] = inflight[1].data[k]]_vars

\* C10 amended: the stored result carries a metadata snapshot of the six
\* fields occasion, audience, tone, length, template and language (language
\* undefined when wizardData had none) with their values of the moment of the
\* click, not those of the moment the response arrives.
C10_SixFieldSnapshot ==
    [][/\ ClosureIsSubmitTimeData
       /\ lastOp' = "success" =>
            /\ Len(inflight) = 1
            /\ generatedSpeech' # Null
            /\ DOMAIN generatedSpeech'[1].metadata = MetadataKeys \cap DOMAIN inflight[1].data
            /\ MetadataKeys \ {"language"} \subseteq DOMAIN generatedSpeech'[1].metadata
            /\ \A k \in DOMAIN generatedSpeech'[1].metadata :
                  generatedSpeech'[1].metadata[k] = inflight[1].data[k]]_vars

\* a result whose metadata differs from the wizardData of the moment the
\* response arrived: a field was edited while the request was in flight
C10_Witness ==
    /\ lastOp = "success"
    /\ generatedSpeech # Null
    /\ \E k \in DOMAIN generatedSpeech[1].metadata :
          Has(wizardData, k) /\ generatedSpeech[1].metadata[k] # wizardData[k]

\* C11: a generateSpeech request is started only in a state where
\* currentStep = 3; no event of steps 0, 1, 2 or 4 starts one.
C11_RequestStartsOnlyAtStep3 ==
    [][(posts' # posts \/ Len(inflight') > Len(inflight) \/ lastOp' = "generate")
         => (currentStep = 3 /\ currentStep' = 3)]_vars

\* the second request of a session, just started at step 3
C11_Witness ==
    /\ lastOp = "generate"
    /\ posts = 2
    /\ Len(inflight) = 1
    /\ currentStep = 3

\* C12: currentStep is an integer in 0..4 in every state; no click on
\* Previous, click on Next, request completion or reset moves it outside.
C12_StepInRange ==
    /\ currentStep \in 0..4
    /\ lastOp = "prev" => currentStep \in 0..3
    /\ lastOp = "reset" => currentStep = 0

\* both ends of the range: the session was at step 4, where the result was
\* stored, and Previous has brought it down to step 0
C12_Witness ==
    /\ lastOp = "prev"
    /\ currentStep = 0
    /\ generatedSpeech # Null
    /\ resets = 0

\* C13: a click on Previous at currentStep > 0 decrements currentStep by
\* exactly 1, also from step 4 and while isLoading is true, and leaves result,
\* error, isLoading and every wizardData field unchanged.
C13_RetreatFrame ==
    [][lastOp' = "prev" =>
         /\ currentStep > 0
         /\ currentStep' = currentStep - 1
         /\ UNCHANGED <<wizardData, generatedSpeech, error, isLoading, inflight>>]_vars

\* Previous clicked at step 3 while a request is in flight and a result of an
\* earlier request is stored
C13_Witness ==
    /\ lastOp = "prev"
    /\ currentStep = 2
    /\ isLoading
    /\ generatedSpeech # Null

\* C14 as stated: every failure of the client, from generateSpeech or from
\* the health check, is stored as a non-empty text in error.
C14_EveryFailureStoredInError ==
    [][lastOp' \in {"failure", "healthFailure"} =>
         /\ error' # Null
         /\ error'[1] # ""]_vars

\* C14 amended: every failure of the client is caught: one from
\* generateSpeech is stored as a non-empty text in error; one from the health
\* check is shown as a non-empty text in an alert and leaves error and the
\* rest of the session unchanged.
C14_EveryFailureCaught ==
    [][/\ lastOp' = "failure" =>
            /\ error' # Null
            /\ error'[1] # ""
       /\ lastOp' = "healthFailure" =>
            /\ alertText' # Null
            /\ alertText'[1] # ""
            /\ UNCHANGED <<session, inflight>>]_vars

\* a health check failed on the network while no error is stored
C14_Witness ==
    /\ lastOp = "healthFailure"
    /\ alertText = Some(HealthFailureAlert(NetworkErrorMessage))
    /\ error = Null
    /\ currentStep = 3

\* C15: setField(key, value) is performed for each of the eight fields and
\* each value its control produces, the empty value included; afterwards the
\* field key reads value, and every other field of wizardData (present or
\* absent), currentStep, generatedSpeech, error and isLoading are unchanged.
C15_SetFieldFrame ==
    [][\A k \in Keys : \A v \in Options(k) :
         lastOp' = EditOp(k, v) =>
           /\ Has(wizardData', k)
           /\ wizardData'[k] = v
           /\ DOMAIN wizardData' = DOMAIN wizardData \cup {k}
           /\ \A x \in DOMAIN wizardData \ {k} : wizardData'[x] = wizardData[x]
           /\ UNCHANGED <<currentStep, generatedSpeech, error, isLoading, inflight>>]_vars

\* occasion emptied at step 0 beside a result, while a request is in flight
C15_Witness ==
    /\ lastOp = EditOp("occasion", "")
    /\ wizardData["occasion"] = ""
    /\ currentStep = 0
    /\ isLoading
    /\ generatedSpeech # Null

\* every generateSpeech request carries a non-empty occasion, audience and
\* template
RequestsCarryGuardedFields ==
    \A i \in 1..Len(inflight) :
      \A k \in {"occasion", "audience", "template"} :
        k \in DOMAIN inflight[i].body /\ inflight[i].body[k] # ""

\* C16: the step guards hold in every reachable state: whenever
\* currentStep >= 1, occasion and audience are non-empty; whenever
\* currentStep >= 3, template is non-empty; hence every generateSpeech
\* request carries a non-empty occasion, audience and template.
C16_StepGuards ==
    /\ currentStep >= 1 => NonEmpty(wizardData, "occasion") /\ NonEmpty(wizardData, "audience")
    /\ currentStep >= 3 => NonEmpty(wizardData, "template")
    /\ RequestsCarryGuardedFields

\* C17: a reset is not undone by a request started before it: a reset
\* leaves no earlier request outstanding, and after a reset generatedSpeech
\* stays absent and currentStep stays below 4 until the successful completion
\* of a request that was started after that reset.
C17_ResetNotUndone ==
    [][/\ lastOp' = "reset" =>
            /\ generatedSpeech' = Null
            /\ currentStep' = 0
       /\ \A i \in 1..Len(inflight') : inflight'[i].epoch = resets'
       /\ (/\ resets >= 1
           /\ lastOp' # "reset"
           /\ \/ generatedSpeech' # generatedSpeech
              \/ currentStep' = 4 /\ currentStep # 4) =>
            /\ lastOp' = "success"
            /\ \E i \in 1..Len(inflight) :
                 /\ inflight[i].epoch = resets
                 /\ inflight' = Remove(inflight, i)]_vars

\* after a reset, a request started after it completed successfully
C17_Witness ==
    /\ lastOp = "success"
    /\ resets = 1
    /\ currentStep = 4
    /\ generatedSpeech # Null
    /\ inflight = <<>>

\* C18: currentStep takes the value 4 only by a transition out of a state
\* with currentStep = 3: the Result step is never entered directly from step
\* 0, 1 or 2.
C18_Step4OnlyFromStep3 ==
    [][(currentStep' = 4 /\ currentStep # 4) => currentStep = 3]_vars

\* C19: whenever currentStep = 4, generatedSpeech is present: step 4 is
\* entered only by a successful completion, which stores generatedSpeech, and
\* generatedSpeech is cleared only by a reset, which sets currentStep to 0.
C19_ResultPresentAtStep4 ==
    /\ [](currentStep = 4 => generatedSpeech # Null)
    /\ [][/\ (currentStep' = 4 /\ currentStep # 4) =>
               /\ lastOp' = "success"
               /\ generatedSpeech' # Null
          /\ (generatedSpeech # Null /\ generatedSpeech' = Null) =>
               /\ lastOp' = "reset"
               /\ currentStep' = 0]_vars

\* the Result step entered by a successful completion, after a reset had
\* cleared an earlier result
C19_Witness ==
    /\ currentStep = 4
    /\ generatedSpeech # Null
    /\ lastOp = "success"
    /\ resets = 1
    /\ posts = 2

\* C20: isLoading is true exactly when one generateSpeech request is
\* outstanding: it becomes true only when a click on the generate button
\* starts a request, becomes false only when that request completes, and is
\* left alone by the form controls, Next, Previous, reset and the health check.
C20_LoadingIffRequestOutstanding ==
    /\ [](isLoading <=> Len(inflight) = 1)
    /\ [][/\ (~isLoading /\ isLoading') =>
               /\ lastOp' = "generate"
               /\ Len(inflight') = Len(inflight) + 1
          /\ (isLoading /\ ~isLoading') =>
               /\ lastOp' \in {"success", "failure"}
               /\ Len(inflight') = Len(inflight) - 1
          /\ lastOp' \notin {"generate", "success", "failure"} =>
               UNCHANGED isLoading]_vars

\* a health check failed while a generateSpeech request is outstanding
C20_Witness ==
    /\ isLoading
    /\ Len(inflight) = 1
    /\ lastOp = "healthFailure"
    /\ currentStep = 0

====
